---------------------------- MODULE Spec2Model ----------------------------
(***************************************************************************)
(* A model of the wasmi Tracer subsystem (crates/wasmi/src/tracer):        *)
(*   - IMTable   : the initial-memory snapshot (imtable.rs, mod.rs)        *)
(*   - ETable    : the event log, its shard codec (etable.rs)              *)
(*   - StepInfo  : the binary step encoding (etable.rs encode / decode)    *)
(*   - MTable    : memory_event_of_step and get_mtable (mtable.rs, mod.rs) *)
(*                                                                         *)
(* Numbers.  TLC integers are 32-bit signed, so every numeric field value  *)
(* of the model lies in -2^31 .. 2^31-1.  i32 fields cover their whole     *)
(* range; u32 / u64 / i64 / usize fields and float bit patterns are drawn  *)
(* from that range and are encoded with their real width (4 or 8 bytes,    *)
(* big-endian, two's complement).  f32 / f64 values are represented by     *)
(* their IEEE bit pattern (what to_be_bytes serialises); NaN patterns are  *)
(* not drawn.  A ValueStackPtr is represented by its element index.        *)
(***************************************************************************)
EXTENDS Integers, Sequences, FiniteSets, TLC

VARIABLES
    memory,      \* the instance's linear memory: initial pages, declared maximum, contents
    imtable,     \* Tracer.imtable : IMTable(Vec<IMTableEntry>)
    etable,      \* Tracer.etable  : ETable(Vec<ETEntry>)
    mtable,      \* the MTable returned by the last get_mtable
    shards,      \* the Vec<Shard> returned by the last into_shards
    num_shards,  \* the shard count handed to the last into_shards
    shard_index, \* the shard (counted from 1) the last from_shard was given
    rebuilt,     \* the ETable returned by the last from_shards
    event,       \* the ETEntry last handed to memory_event_of_step
    emid,        \* the counter (&mut u32) threaded through memory_event_of_step
    ops,         \* the Vec<MemoryTableEntry> returned by the last memory_event_of_step
    step_info,   \* the StepInfo last handed to StepInfo::encode
    bytes,       \* the Vec<u8> returned by the last StepInfo::encode
    decoded,     \* the StepInfo returned by the last StepInfo::decode
    last_op,     \* the operation performed last
    panicked     \* TRUE once an operation has panicked (the program has aborted)

vars == << memory, imtable, etable, mtable, shards, num_shards, shard_index, rebuilt, event, emid, ops,
           step_info, bytes, decoded, last_op, panicked >>

(***************************************************************************)
(* Bounds of the model.                                                    *)
(***************************************************************************)
MaxSteps == 4        \* longest ETable built by push
MaxShardLen == 3     \* longest ETable handed to the shard codec
MaxPages == 1        \* largest number of initially committed pages
MaxInitCalls == 1    \* most calls of push_init_memory in one run
MaxGlobals == 2      \* most globals recorded in one run
MaxEmid == 12        \* the threaded emid counter is not advanced past this

(***************************************************************************)
(* Sequence helpers.                                                       *)
(***************************************************************************)
RECURSIVE Concat(_)
Concat(ss) == IF ss = << >> THEN << >> ELSE Head(ss) \o Concat(Tail(ss))

\* Rust's slice[lo..hi] (0-based, half open) of a Vec; the caller checks the range.
Slice(s, lo, hi) == SubSeq(s, lo + 1, hi)

(***************************************************************************)
(* Big-endian integer conversion (to_be_bytes / from_be_bytes).            *)
(***************************************************************************)
Pow256(k) == CASE k = 0 -> 1 [] k = 1 -> 256 [] k = 2 -> 65536 [] k = 3 -> 16777216

\* n big-endian bytes of an unsigned v < 2^31
UBytes(v, n) == [i \in 1..n |-> IF n - i > 3 THEN 0 ELSE (v \div Pow256(n - i)) % 256]

\* n big-endian bytes of a signed v (two's complement, sign-extended)
IBytes(v, n) ==
    IF v >= 0 THEN UBytes(v, n)
    ELSE LET low == UBytes((v + 2147483647) + 1, 4)
         IN  [i \in 1..n |-> IF i <= n - 4 THEN 255
                             ELSE IF i = n - 3 THEN low[1] + 128
                             ELSE low[i - (n - 4)]]

RECURSIVE UFrom(_)
UFrom(bs) == IF bs = << >> THEN 0 ELSE UFrom(SubSeq(bs, 1, Len(bs) - 1)) * 256 + bs[Len(bs)]

IFrom(bs) ==
    IF bs[1] < 128 THEN UFrom(bs)
    ELSE LET n == Len(bs)
             low == UFrom(<< bs[n - 3] - 128, bs[n - 2], bs[n - 1], bs[n] >>)
         IN  (low - 2147483647) - 1

(***************************************************************************)
(* Enumerations of the wire format.  A value is represented by its name;   *)
(* the position in the list (from 0) is the byte encode() writes and       *)
(* decode() accepts; any other byte makes decode() panic.                  *)
(***************************************************************************)
VarTypeNames == << "I64", "I32", "F32", "F64", "FuncRef", "ExternRef" >>
MemoryReadSizeNames == << "U8", "S8", "U16", "S16", "U32", "S32", "I64", "F32", "F64" >>
MemoryStoreSizeNames == << "Byte8", "Byte16", "Byte32", "Byte64" >>
UnaryOpNames == << "Ctz", "Clz", "Popcnt", "Abs", "Neg", "Ceil", "Floor", "Trunc",
                   "Nearest", "Sqrt" >>
BinOpNames == << "Add", "Sub", "Mul", "Div", "Min", "Max", "Copysign", "UnsignedDiv",
                 "UnsignedRem", "SignedDiv", "SignedRem" >>
ShiftOpNames == << "Shl", "UnsignedShr", "SignedShr", "Rotl", "Rotr" >>
BitOpNames == << "And", "Or", "Xor" >>
RelOpNames == << "Eq", "Ne", "Lt", "Gt", "Le", "Ge", "SignedGt", "UnsignedGt", "SignedGe",
                 "UnsignedGe", "SignedLt", "UnsignedLt", "SignedLe", "UnsignedLe" >>

EnumNames(kind) ==
    CASE kind = "VarType" -> VarTypeNames
      [] kind = "MemoryReadSize" -> MemoryReadSizeNames
      [] kind = "MemoryStoreSize" -> MemoryStoreSizeNames
      [] kind = "UnaryOp" -> UnaryOpNames
      [] kind = "BinOp" -> BinOpNames
      [] kind = "ShiftOp" -> ShiftOpNames
      [] kind = "BitOp" -> BitOpNames
      [] kind = "RelOp" -> RelOpNames

EnumEncode(kind, x) ==
    (CHOOSE i \in 1..Len(EnumNames(kind)) : EnumNames(kind)[i] = x) - 1

\* MemoryReadSize::byte_size / MemoryStoreSize::byte_size
ReadByteSize(size) ==
    CASE size \in {"U8", "S8"} -> 1
      [] size \in {"U16", "S16"} -> 2
      [] size \in {"U32", "S32", "F32"} -> 4
      [] size \in {"I64", "F64"} -> 8

StoreByteSize(size) ==
    CASE size = "Byte8" -> 1 [] size = "Byte16" -> 2 [] size = "Byte32" -> 4
      [] size = "Byte64" -> 8

(***************************************************************************)
(* Field types of StepInfo and their serialisation (trait ToBytes).        *)
(***************************************************************************)
IntKinds == {"i32", "u32", "i64", "u64", "usize", "f32", "f64"}

Width(kind) == IF kind \in {"i32", "u32", "f32"} THEN 4 ELSE 8

ToBytes(kind, x) ==
    IF kind \in {"i32", "i64"} THEN IBytes(x, Width(kind))
    ELSE IF kind \in IntKinds THEN UBytes(x, Width(kind))
    ELSE IF kind = "bool" THEN << IF x THEN 1 ELSE 0 >>
    ELSE IF kind = "vec_u64"
         THEN UBytes(Len(x), 4) \o Concat([i \in 1..Len(x) |-> UBytes(x[i], 8)])
    ELSE << EnumEncode(kind, x) >>

FromBytes(kind, bs) == IF kind \in {"i32", "i64"} THEN IFrom(bs) ELSE UFrom(bs)

(***************************************************************************)
(* StepInfo::encode and StepInfo::decode.  A StepInfo is a record with the *)
(* field "variant" and the variant's fields.                               *)
(***************************************************************************)
\* StepInfo::encode: per variant, the tag byte and the fields in the order written.
encode_layout(variant) ==
    CASE variant = "Br" ->
         [tag |-> 0, fields |-> << <<"offset", "i32">> >>]
      [] variant = "BrIfEqz" ->
         [tag |-> 1, fields |-> << <<"condition", "i32">>, <<"offset", "i32">> >>]
      [] variant = "BrIfNez" ->
         [tag |-> 2, fields |-> << <<"condition", "i32">>, <<"offset", "i32">> >>]
      [] variant = "BrAdjust" ->
         [tag |-> 3, fields |-> << <<"offset", "i32">> >>]
      [] variant = "BrTable" ->
         [tag |-> 4, fields |-> << <<"index", "i32">>, <<"offset", "usize">> >>]
      [] variant = "Return" ->
         [tag |-> 5, fields |-> << <<"drop", "u32">>, <<"keep_values", "vec_u64">> >>]
      [] variant = "Drop" ->
         [tag |-> 6, fields |-> <<  >>]
      [] variant = "Select" ->
         [tag |-> 7, fields |-> << <<"val1", "u64">>, <<"val2", "u64">>, <<"cond", "u64">>, <<"result", "u64">> >>]
      [] variant = "CallInternal" ->
         [tag |-> 8, fields |-> << <<"args", "vec_u64">> >>]
      [] variant = "CallIndirect" ->
         [tag |-> 9, fields |-> << <<"func_index", "u32">> >>]
      [] variant = "LocalGet" ->
         [tag |-> 10, fields |-> << <<"depth", "usize">>, <<"value", "u64">> >>]
      [] variant = "SetLocal" ->
         [tag |-> 11, fields |-> << <<"depth", "usize">>, <<"value", "u64">> >>]
      [] variant = "TeeLocal" ->
         [tag |-> 12, fields |-> << <<"depth", "usize">>, <<"value", "u64">> >>]
      [] variant = "GetGlobal" ->
         [tag |-> 13, fields |-> << <<"idx", "u32">>, <<"value", "u64">> >>]
      [] variant = "SetGlobal" ->
         [tag |-> 14, fields |-> << <<"idx", "u32">>, <<"value", "u64">> >>]
      [] variant = "Load" ->
         [tag |-> 15, fields |-> << <<"vtype", "VarType">>, <<"load_size", "MemoryReadSize">>, <<"offset", "u32">>, <<"raw_address", "u32">>, <<"effective_address", "usize">>, <<"value", "u64">>, <<"block_value1", "u64">>, <<"block_value2", "u64">> >>]
      [] variant = "Store" ->
         [tag |-> 16, fields |-> << <<"vtype", "VarType">>, <<"store_size", "MemoryStoreSize">>, <<"offset", "u32">>, <<"raw_address", "u32">>, <<"effective_address", "usize">>, <<"pre_block_value1", "u64">>, <<"updated_block_value1", "u64">>, <<"pre_block_value2", "u64">>, <<"updated_block_value2", "u64">>, <<"value", "u64">> >>]
      [] variant = "MemorySize" ->
         [tag |-> 17, fields |-> <<  >>]
      [] variant = "MemoryGrow" ->
         [tag |-> 18, fields |-> << <<"grow_size", "i32">>, <<"result", "i32">> >>]
      [] variant = "I32Const" ->
         [tag |-> 19, fields |-> << <<"value", "i32">> >>]
      [] variant = "Const32" ->
         [tag |-> 20, fields |-> << <<"value", "u32">> >>]
      [] variant = "ConstRef" ->
         [tag |-> 21, fields |-> << <<"value", "u64">> >>]
      [] variant = "I64Const" ->
         [tag |-> 22, fields |-> << <<"value", "i64">> >>]
      [] variant = "I32BinOp" ->
         [tag |-> 23, fields |-> << <<"class", "BinOp">>, <<"left", "i32">>, <<"right", "i32">>, <<"value", "i32">> >>]
      [] variant = "I32BinShiftOp" ->
         [tag |-> 24, fields |-> << <<"class", "ShiftOp">>, <<"left", "i32">>, <<"right", "i32">>, <<"value", "i32">> >>]
      [] variant = "I32BinBitOp" ->
         [tag |-> 25, fields |-> << <<"class", "BitOp">>, <<"left", "i32">>, <<"right", "i32">>, <<"value", "i32">> >>]
      [] variant = "I64BinOp" ->
         [tag |-> 26, fields |-> << <<"class", "BinOp">>, <<"left", "i64">>, <<"right", "i64">>, <<"value", "i64">> >>]
      [] variant = "I64BinShiftOp" ->
         [tag |-> 27, fields |-> << <<"class", "ShiftOp">>, <<"left", "i64">>, <<"right", "i64">>, <<"value", "i64">> >>]
      [] variant = "I64BinBitOp" ->
         [tag |-> 28, fields |-> << <<"class", "BitOp">>, <<"left", "i64">>, <<"right", "i64">>, <<"value", "i64">> >>]
      [] variant = "UnaryOp" ->
         [tag |-> 29, fields |-> << <<"class", "UnaryOp">>, <<"vtype", "VarType">>, <<"operand", "u64">>, <<"result", "u64">> >>]
      [] variant = "CompZ" ->
         [tag |-> 30, fields |-> << <<"vtype", "VarType">>, <<"value", "u64">>, <<"result", "i32">> >>]
      [] variant = "I32Comp" ->
         [tag |-> 31, fields |-> << <<"class", "RelOp">>, <<"left", "i32">>, <<"right", "i32">>, <<"value", "bool">> >>]
      [] variant = "I64Comp" ->
         [tag |-> 32, fields |-> << <<"class", "RelOp">>, <<"left", "i64">>, <<"right", "i64">>, <<"value", "bool">> >>]
      [] variant = "I32WrapI64" ->
         [tag |-> 33, fields |-> << <<"value", "i64">>, <<"result", "i32">> >>]
      [] variant = "I64ExtendI32" ->
         [tag |-> 34, fields |-> << <<"value", "i32">>, <<"result", "i64">>, <<"sign", "bool">> >>]
      [] variant = "I32SignExtendI8" ->
         [tag |-> 35, fields |-> << <<"value", "i32">>, <<"result", "i32">> >>]
      [] variant = "I32SignExtendI16" ->
         [tag |-> 36, fields |-> << <<"value", "i32">>, <<"result", "i32">> >>]
      [] variant = "I64SignExtendI8" ->
         [tag |-> 37, fields |-> << <<"value", "i64">>, <<"result", "i64">> >>]
      [] variant = "I64SignExtendI16" ->
         [tag |-> 38, fields |-> << <<"value", "i64">>, <<"result", "i64">> >>]
      [] variant = "I64SignExtendI32" ->
         [tag |-> 39, fields |-> << <<"value", "i64">>, <<"result", "i64">> >>]
      [] variant = "I32TruncF32" ->
         [tag |-> 40, fields |-> << <<"value", "f32">>, <<"result", "i32">>, <<"sign", "bool">> >>]
      [] variant = "I32TruncF64" ->
         [tag |-> 41, fields |-> << <<"value", "f64">>, <<"result", "i32">>, <<"sign", "bool">> >>]
      [] variant = "I64TruncF32" ->
         [tag |-> 42, fields |-> << <<"value", "f32">>, <<"result", "i64">>, <<"sign", "bool">> >>]
      [] variant = "I64TruncF64" ->
         [tag |-> 43, fields |-> << <<"value", "f64">>, <<"result", "i64">>, <<"sign", "bool">> >>]
      [] variant = "F32ConvertI32" ->
         [tag |-> 44, fields |-> << <<"value", "i32">>, <<"result", "f32">>, <<"sign", "bool">> >>]
      [] variant = "F32ConvertI64" ->
         [tag |-> 45, fields |-> << <<"value", "i64">>, <<"result", "f32">>, <<"sign", "bool">> >>]
      [] variant = "F64ConvertI32" ->
         [tag |-> 46, fields |-> << <<"value", "i32">>, <<"result", "f64">>, <<"sign", "bool">> >>]
      [] variant = "F64ConvertI64" ->
         [tag |-> 47, fields |-> << <<"value", "i64">>, <<"result", "f64">>, <<"sign", "bool">> >>]
      [] variant = "I32ReinterpretF32" ->
         [tag |-> 48, fields |-> << <<"value", "f32">>, <<"result", "i32">> >>]
      [] variant = "I64ReinterpretF64" ->
         [tag |-> 49, fields |-> << <<"value", "f64">>, <<"result", "i64">> >>]
      [] variant = "F32ReinterpretI32" ->
         [tag |-> 50, fields |-> << <<"value", "i32">>, <<"result", "f32">> >>]
      [] variant = "F64ReinterpretI64" ->
         [tag |-> 51, fields |-> << <<"value", "i64">>, <<"result", "f64">> >>]
      [] variant = "F32DemoteF64" ->
         [tag |-> 52, fields |-> << <<"value", "f64">>, <<"result", "f32">> >>]
      [] variant = "F64PromoteF32" ->
         [tag |-> 53, fields |-> << <<"value", "f32">>, <<"result", "f64">> >>]
      [] variant = "F32Const" ->
         [tag |-> 54, fields |-> << <<"value", "f32">> >>]
      [] variant = "F64Const" ->
         [tag |-> 55, fields |-> << <<"value", "f64">> >>]
      [] variant = "F32Comp" ->
         [tag |-> 56, fields |-> << <<"class", "RelOp">>, <<"left", "f32">>, <<"right", "f32">>, <<"value", "bool">> >>]
      [] variant = "F64Comp" ->
         [tag |-> 57, fields |-> << <<"class", "RelOp">>, <<"left", "f64">>, <<"right", "f64">>, <<"value", "bool">> >>]
      [] variant = "F32BinOp" ->
         [tag |-> 58, fields |-> << <<"class", "BinOp">>, <<"left", "f32">>, <<"right", "f32">>, <<"value", "f32">> >>]
      [] variant = "F64BinOp" ->
         [tag |-> 59, fields |-> << <<"class", "BinOp">>, <<"left", "f64">>, <<"right", "f64">>, <<"value", "f64">> >>]

\* StepInfo::decode: per tag byte, the variant and, for each field, its type and the
\* byte range bytes[lo..hi] it is read from (hi = -1: to the end of the buffer).
decode_layout(tag) ==
    CASE tag = 0 ->
         [variant |-> "Br", fields |-> << <<"offset", "i32", 1, -1>> >>]
      [] tag = 1 ->
         [variant |-> "BrIfEqz", fields |-> << <<"condition", "i32", 1, 5>>, <<"offset", "i32", 5, 9>> >>]
      [] tag = 2 ->
         [variant |-> "BrIfNez", fields |-> << <<"condition", "i32", 1, 5>>, <<"offset", "i32", 5, 9>> >>]
      [] tag = 3 ->
         [variant |-> "BrAdjust", fields |-> << <<"offset", "i32", 1, 5>> >>]
      [] tag = 4 ->
         [variant |-> "BrTable", fields |-> << <<"index", "i32", 1, 5>>, <<"offset", "usize", 5, 9>> >>]
      [] tag = 5 ->
         [variant |-> "Return", fields |-> << <<"drop", "u32", 1, 5>>, <<"keep_values", "vec_u64", 5, 9>> >>]
      [] tag = 6 ->
         [variant |-> "Drop", fields |-> <<  >>]
      [] tag = 7 ->
         [variant |-> "Select", fields |-> << <<"val1", "u64", 1, 9>>, <<"val2", "u64", 9, 17>>, <<"cond", "u64", 17, 25>>, <<"result", "u64", 25, 33>> >>]
      [] tag = 8 ->
         [variant |-> "CallInternal", fields |-> << <<"args", "vec_u64", 1, 5>> >>]
      [] tag = 9 ->
         [variant |-> "CallIndirect", fields |-> << <<"func_index", "u32", 1, 9>> >>]
      [] tag = 10 ->
         [variant |-> "LocalGet", fields |-> << <<"depth", "usize", 1, 9>>, <<"value", "u64", 9, 17>> >>]
      [] tag = 11 ->
         [variant |-> "SetLocal", fields |-> << <<"depth", "usize", 1, 9>>, <<"value", "u64", 9, 17>> >>]
      [] tag = 12 ->
         [variant |-> "TeeLocal", fields |-> << <<"depth", "usize", 1, 9>>, <<"value", "u64", 9, 17>> >>]
      [] tag = 13 ->
         [variant |-> "GetGlobal", fields |-> << <<"idx", "u32", 1, 5>>, <<"value", "u64", 5, 13>> >>]
      [] tag = 14 ->
         [variant |-> "SetGlobal", fields |-> << <<"idx", "u32", 1, 5>>, <<"value", "u64", 5, 13>> >>]
      [] tag = 15 ->
         [variant |-> "Load", fields |-> << <<"vtype", "VarType", 1, 2>>, <<"load_size", "MemoryReadSize", 2, 3>>, <<"offset", "u32", 3, 7>>, <<"raw_address", "u32", 7, 11>>, <<"effective_address", "usize", 11, 19>>, <<"value", "u64", 19, 27>>, <<"block_value1", "u64", 27, 35>>, <<"block_value2", "u64", 35, 43>> >>]
      [] tag = 16 ->
         [variant |-> "Store", fields |-> << <<"vtype", "VarType", 1, 2>>, <<"store_size", "MemoryStoreSize", 2, 3>>, <<"offset", "u32", 3, 7>>, <<"raw_address", "u32", 7, 11>>, <<"effective_address", "usize", 11, 19>>, <<"pre_block_value1", "u64", 19, 27>>, <<"updated_block_value1", "u64", 27, 35>>, <<"pre_block_value2", "u64", 35, 43>>, <<"updated_block_value2", "u64", 43, 51>>, <<"value", "u64", 51, 59>> >>]
      [] tag = 17 ->
         [variant |-> "MemorySize", fields |-> <<  >>]
      [] tag = 18 ->
         [variant |-> "MemoryGrow", fields |-> << <<"grow_size", "i32", 1, 5>>, <<"result", "i32", 5, 9>> >>]
      [] tag = 19 ->
         [variant |-> "I32Const", fields |-> << <<"value", "i32", 1, 5>> >>]
      [] tag = 20 ->
         [variant |-> "Const32", fields |-> << <<"value", "u32", 1, 5>> >>]
      [] tag = 21 ->
         [variant |-> "ConstRef", fields |-> << <<"value", "u64", 1, 9>> >>]
      [] tag = 22 ->
         [variant |-> "I64Const", fields |-> << <<"value", "i64", 1, 9>> >>]
      [] tag = 23 ->
         [variant |-> "I32BinOp", fields |-> << <<"class", "BinOp", 1, 2>>, <<"left", "i32", 2, 6>>, <<"right", "i32", 6, 10>>, <<"value", "i32", 10, 14>> >>]
      [] tag = 24 ->
         [variant |-> "I32BinShiftOp", fields |-> << <<"class", "ShiftOp", 1, 2>>, <<"left", "i32", 2, 6>>, <<"right", "i32", 6, 10>>, <<"value", "i32", 10, 14>> >>]
      [] tag = 25 ->
         [variant |-> "I32BinBitOp", fields |-> << <<"class", "BitOp", 1, 2>>, <<"left", "i32", 2, 6>>, <<"right", "i32", 6, 10>>, <<"value", "i32", 10, 14>> >>]
      [] tag = 26 ->
         [variant |-> "I64BinOp", fields |-> << <<"class", "BinOp", 1, 2>>, <<"left", "i64", 2, 10>>, <<"right", "i64", 10, 18>>, <<"value", "i64", 18, 26>> >>]
      [] tag = 27 ->
         [variant |-> "I64BinShiftOp", fields |-> << <<"class", "ShiftOp", 1, 2>>, <<"left", "i64", 2, 10>>, <<"right", "i64", 10, 18>>, <<"value", "i64", 18, 26>> >>]
      [] tag = 28 ->
         [variant |-> "I64BinBitOp", fields |-> << <<"class", "BitOp", 1, 2>>, <<"left", "i64", 2, 10>>, <<"right", "i64", 10, 18>>, <<"value", "i64", 18, 26>> >>]
      [] tag = 29 ->
         [variant |-> "UnaryOp", fields |-> << <<"class", "UnaryOp", 1, 2>>, <<"vtype", "VarType", 2, 3>>, <<"operand", "u64", 3, 11>>, <<"result", "u64", 11, 19>> >>]
      [] tag = 30 ->
         [variant |-> "CompZ", fields |-> << <<"vtype", "VarType", 1, 2>>, <<"value", "u64", 2, 10>>, <<"result", "i32", 10, 14>> >>]
      [] tag = 31 ->
         [variant |-> "I32Comp", fields |-> << <<"class", "RelOp", 1, 2>>, <<"left", "i32", 2, 6>>, <<"right", "i32", 6, 10>>, <<"value", "bool", 10, 11>> >>]
      [] tag = 32 ->
         [variant |-> "I64Comp", fields |-> << <<"class", "RelOp", 1, 2>>, <<"left", "i64", 2, 10>>, <<"right", "i64", 10, 18>>, <<"value", "bool", 17, 18>> >>]
      [] tag = 33 ->
         [variant |-> "I32WrapI64", fields |-> << <<"value", "i64", 1, 9>>, <<"result", "i32", 9, 13>> >>]
      [] tag = 34 ->
         [variant |-> "I64ExtendI32", fields |-> << <<"value", "i32", 1, 5>>, <<"result", "i64", 5, 13>>, <<"sign", "bool", 13, 14>> >>]
      [] tag = 35 ->
         [variant |-> "I32SignExtendI8", fields |-> << <<"value", "i32", 1, 5>>, <<"result", "i32", 5, 9>> >>]
      [] tag = 36 ->
         [variant |-> "I32SignExtendI16", fields |-> << <<"value", "i32", 1, 5>>, <<"result", "i32", 5, 9>> >>]
      [] tag = 37 ->
         [variant |-> "I64SignExtendI8", fields |-> << <<"value", "i64", 1, 9>>, <<"result", "i64", 9, 17>> >>]
      [] tag = 38 ->
         [variant |-> "I64SignExtendI16", fields |-> << <<"value", "i64", 1, 9>>, <<"result", "i64", 9, 17>> >>]
      [] tag = 39 ->
         [variant |-> "I64SignExtendI32", fields |-> << <<"value", "i64", 1, 9>>, <<"result", "i64", 9, 17>> >>]
      [] tag = 40 ->
         [variant |-> "I32TruncF32", fields |-> << <<"value", "f32", 1, 5>>, <<"result", "i32", 5, 9>>, <<"sign", "bool", 9, 10>> >>]
      [] tag = 41 ->
         [variant |-> "I32TruncF64", fields |-> << <<"value", "f64", 1, 9>>, <<"result", "i32", 9, 13>>, <<"sign", "bool", 9, 10>> >>]
      [] tag = 42 ->
         [variant |-> "I64TruncF32", fields |-> << <<"value", "f32", 1, 5>>, <<"result", "i64", 5, 13>>, <<"sign", "bool", 13, 14>> >>]
      [] tag = 43 ->
         [variant |-> "I64TruncF64", fields |-> << <<"value", "f64", 1, 9>>, <<"result", "i64", 9, 17>>, <<"sign", "bool", 17, 18>> >>]
      [] tag = 44 ->
         [variant |-> "F32ConvertI32", fields |-> << <<"value", "i32", 1, 5>>, <<"result", "f32", 5, 9>>, <<"sign", "bool", 9, 10>> >>]
      [] tag = 45 ->
         [variant |-> "F32ConvertI64", fields |-> << <<"value", "i64", 1, 9>>, <<"result", "f32", 9, 13>>, <<"sign", "bool", 13, 14>> >>]
      [] tag = 46 ->
         [variant |-> "F64ConvertI32", fields |-> << <<"value", "i32", 1, 5>>, <<"result", "f64", 5, 13>>, <<"sign", "bool", 13, 14>> >>]
      [] tag = 47 ->
         [variant |-> "F64ConvertI64", fields |-> << <<"value", "i64", 1, 9>>, <<"result", "f64", 9, 17>>, <<"sign", "bool", 17, 18>> >>]
      [] tag = 48 ->
         [variant |-> "I32ReinterpretF32", fields |-> << <<"value", "f32", 1, 5>>, <<"result", "i32", 5, 9>> >>]
      [] tag = 49 ->
         [variant |-> "I64ReinterpretF64", fields |-> << <<"value", "f64", 1, 9>>, <<"result", "i64", 9, 17>> >>]
      [] tag = 50 ->
         [variant |-> "F32ReinterpretI32", fields |-> << <<"value", "i32", 1, 5>>, <<"result", "f32", 5, 9>> >>]
      [] tag = 51 ->
         [variant |-> "F64ReinterpretI64", fields |-> << <<"value", "i64", 1, 9>>, <<"result", "f64", 9, 17>> >>]
      [] tag = 52 ->
         [variant |-> "F32DemoteF64", fields |-> << <<"value", "f64", 1, 9>>, <<"result", "f32", 9, 13>> >>]
      [] tag = 53 ->
         [variant |-> "F64PromoteF32", fields |-> << <<"value", "f32", 1, 5>>, <<"result", "f64", 5, 13>> >>]
      [] tag = 54 ->
         [variant |-> "F32Const", fields |-> << <<"value", "f32", 1, 5>> >>]
      [] tag = 55 ->
         [variant |-> "F64Const", fields |-> << <<"value", "f64", 1, 9>> >>]
      [] tag = 56 ->
         [variant |-> "F32Comp", fields |-> << <<"class", "RelOp", 1, 2>>, <<"left", "f32", 2, 6>>, <<"right", "f32", 6, 10>>, <<"value", "bool", 9, 10>> >>]
      [] tag = 57 ->
         [variant |-> "F64Comp", fields |-> << <<"class", "RelOp", 1, 2>>, <<"left", "f64", 2, 10>>, <<"right", "f64", 10, 18>>, <<"value", "bool", 17, 18>> >>]
      [] tag = 58 ->
         [variant |-> "F32BinOp", fields |-> << <<"class", "BinOp", 1, 2>>, <<"left", "f32", 2, 6>>, <<"right", "f32", 6, 10>>, <<"value", "f32", 10, 14>> >>]
      [] tag = 59 ->
         [variant |-> "F64BinOp", fields |-> << <<"class", "BinOp", 1, 2>>, <<"left", "f64", 2, 10>>, <<"right", "f64", 10, 18>>, <<"value", "f64", 18, 26>> >>]

\* The result of an operation that may panic: [ok |-> TRUE, v |-> value] or Panic.
Panic == [ok |-> FALSE]
Ok(x) == [ok |-> TRUE, v |-> x]

encode(v) ==
    LET lay == encode_layout(v.variant)
        bs == << lay.tag >>
                \o Concat([i \in 1..Len(lay.fields) |->
                              ToBytes(lay.fields[i][2], v[lay.fields[i][1]])])
    IN  IF /\ (v.variant = "BrIfNez" => Len(bs) = 9)                \* assert_eq!
           /\ (v.variant = "CompZ" /\ v.vtype # "I64" => bs[2] # 0) \* assert_ne!
        THEN Ok(bs) ELSE Panic

\* One field of decode: the indexing bytes[lo..hi] (or bytes[lo]) panics out of range,
\* try_into().unwrap() panics unless the slice has the width of the field type, and
\* an enumeration or boolean byte panics outside its assigned values.
DecodeField(bs, kind, lo, hi) ==
    LET h == IF hi = -1 THEN Len(bs) ELSE hi
    IN  IF kind \in IntKinds
        THEN IF lo > h \/ h > Len(bs) THEN Panic
             ELSE IF h - lo # Width(kind) THEN Panic
             ELSE Ok(FromBytes(kind, Slice(bs, lo, h)))
        ELSE IF kind = "vec_u64"
        THEN IF h > Len(bs) THEN Panic
             ELSE LET n == UFrom(Slice(bs, lo, h))
                  IN  IF n > Len(bs) \/ h + n * 8 > Len(bs) THEN Panic
                      ELSE Ok([i \in 1..n |->
                                  UFrom(Slice(bs, h + (i - 1) * 8, h + (i - 1) * 8 + 8))])
        ELSE IF lo >= Len(bs) THEN Panic
        ELSE IF kind = "bool"
        THEN IF bs[lo + 1] = 0 THEN Ok(FALSE)
             ELSE IF bs[lo + 1] = 1 THEN Ok(TRUE) ELSE Panic
        ELSE IF bs[lo + 1] < Len(EnumNames(kind)) THEN Ok(EnumNames(kind)[bs[lo + 1] + 1])
             ELSE Panic

decode(bs) ==
    IF Len(bs) = 0 THEN Panic                 \* bytes[0] out of range
    ELSE IF bs[1] > 59 THEN Panic             \* _ => panic!("invalid type")
    ELSE LET lay == decode_layout(bs[1])
             fs == lay.fields
             d(i) == DecodeField(bs, fs[i][2], fs[i][3], fs[i][4])
             idx(f) == CHOOSE i \in 1..Len(fs) : fs[i][1] = f
         IN  IF \E i \in 1..Len(fs) : ~d(i).ok THEN Panic
             ELSE Ok([f \in {fs[i][1] : i \in 1..Len(fs)} \cup {"variant"} |->
                         IF f = "variant" THEN lay.variant ELSE d(idx(f)).v])

(***************************************************************************)
(* ETable: push, into_shards, from_shards.  An ETEntry is a record         *)
(* [eid, allocated_memory_pages, step_info, sp]; sp is the element index   *)
(* of the ValueStackPtr, so offset_from is a difference and into_add /     *)
(* into_sub are an addition / a subtraction.                               *)
(***************************************************************************)
\* A faulty push that numbers from 0, kept to show that the eid property of push
\* tells the two apart.
push_from_zero(entries, allocated_memory_pages, si, sp) ==
    Append(entries, [eid |-> Len(entries),
                     allocated_memory_pages |-> allocated_memory_pages,
                     step_info |-> si,
                     sp |-> sp])

push(entries, allocated_memory_pages, si, sp) ==
    Append(entries, [eid |-> Len(entries) + 1,
                     allocated_memory_pages |-> allocated_memory_pages,
                     step_info |-> si,
                     sp |-> sp])

\* A faulty chunk loop that gives the extra entries to the last runs.
RECURSIVE Chunks_extra_last(_, _, _, _)
Chunks_extra_last(entries, n, i, start_index) ==
    IF i = n THEN << >>
    ELSE LET chunk_size == Len(entries) \div n
             remainder == Len(entries) % n
             end_index == start_index + chunk_size + (IF i >= n - remainder THEN 1 ELSE 0)
         IN  << Slice(entries, start_index, end_index) >>
                 \o Chunks_extra_last(entries, n, i + 1, end_index)

\* The loop of into_shards that cuts self.0 into num_shards chunks.
RECURSIVE Chunks(_, _, _, _)
Chunks(entries, n, i, start_index) ==
    IF i = n THEN << >>
    ELSE LET chunk_size == Len(entries) \div n
             remainder == Len(entries) % n
             end_index == start_index + chunk_size + (IF i < remainder THEN 1 ELSE 0)
         IN  << Slice(entries, start_index, end_index) >>
                 \o Chunks(entries, n, i + 1, end_index)

\* Faulty markers whose stack-pointer delta is taken against the chunk's first entry.
StepMarkers_delta_from_first(chunk, k) ==
    LET step == chunk[k]
        sp_delta == step.sp - chunk[1].sp
        num_memory_pages == chunk[1].allocated_memory_pages
    IN  (IF num_memory_pages # step.allocated_memory_pages
         THEN << [t |-> "M", v |-> step.allocated_memory_pages] >> ELSE << >>)
        \o (IF sp_delta # 0 THEN << [t |-> "D", v |-> sp_delta] >> ELSE << >>)
        \o << [t |-> "I", v |-> encode(step.step_info).v] >>

\* The markers into_shards emits for the k-th step of a chunk.
StepMarkers(chunk, k) ==
    LET step == chunk[k]
        stack_pointer == IF k = 1 THEN chunk[1].sp ELSE chunk[k - 1].sp
        sp_delta == step.sp - stack_pointer
        num_memory_pages == chunk[1].allocated_memory_pages
    IN  (IF num_memory_pages # step.allocated_memory_pages
         THEN << [t |-> "M", v |-> step.allocated_memory_pages] >> ELSE << >>)
        \o (IF sp_delta # 0 THEN << [t |-> "D", v |-> sp_delta] >> ELSE << >>)
        \o << [t |-> "I", v |-> encode(step.step_info).v] >>

ShardOf(chunk) ==
    [eid |-> chunk[1].eid,
     allocated_memory_pages |-> chunk[1].allocated_memory_pages,
     stack_pointer |-> chunk[1].sp,
     steps |-> Concat([k \in 1..Len(chunk) |-> StepMarkers(chunk, k)])]

\* A faulty into_shards that drops empty chunks instead of aborting on them.
into_shards_skip_empty(entries, n) ==
    IF n = 0 THEN Panic
    ELSE LET chunks == SelectSeq(Chunks(entries, n, 0, 0), LAMBDA c : c # << >>)
         IN  IF \E i \in 1..Len(entries) : ~encode(entries[i].step_info).ok
             THEN Panic
             ELSE Ok([c \in 1..Len(chunks) |-> ShardOf(chunks[c])])

into_shards(entries, n) ==
    IF n = 0 THEN Panic                                        \* division by zero
    ELSE LET chunks == Chunks(entries, n, 0, 0)
         IN  IF \E c \in 1..n : chunks[c] = << >> THEN Panic   \* chunk[0] out of range
             ELSE IF \E i \in 1..Len(entries) : ~encode(entries[i].step_info).ok
             THEN Panic
             ELSE Ok([c \in 1..n |-> ShardOf(chunks[c])])

\* The filter_map of from_shards over one shard's markers, with its running state.
RECURSIVE Replay(_, _, _, _, _)
Replay(steps, eid, index, allocated_memory_pages, stack_pointer) ==
    IF steps = << >> THEN Ok(<< >>)
    ELSE LET st == Head(steps)
         IN  CASE st.t = "I" ->
                    LET d == decode(st.v)
                        rest == Replay(Tail(steps), eid, index + 1,
                                       allocated_memory_pages, stack_pointer)
                    IN  IF ~d.ok \/ ~rest.ok THEN Panic
                        ELSE Ok(<< [eid |-> eid + index,
                                    allocated_memory_pages |-> allocated_memory_pages,
                                    sp |-> stack_pointer,
                                    step_info |-> d.v] >> \o rest.v)
               [] st.t = "M" ->
                    Replay(Tail(steps), eid, index, st.v, stack_pointer)
               [] st.t = "D" ->
                    Replay(Tail(steps), eid, index, allocated_memory_pages,
                           IF st.v < 0 THEN stack_pointer - (0 - st.v)
                           ELSE IF st.v > 0 THEN stack_pointer + st.v
                           ELSE stack_pointer)

from_shards(ss) ==
    IF ss = << >> THEN Panic                                   \* assert!(!shards.is_empty())
    ELSE LET r(c) == Replay(ss[c].steps, ss[c].eid, 0, ss[c].allocated_memory_pages,
                            ss[c].stack_pointer)
         IN  IF \E c \in 1..Len(ss) : ~r(c).ok THEN Panic
             ELSE Ok(Concat([c \in 1..Len(ss) |-> r(c).v]))

\* ETable::from_shard
from_shard(shard) == from_shards(<< shard >>)

(***************************************************************************)
(* MTable: memory_event_of_step and get_mtable.  The StepInfo matched by   *)
(* memory_event_of_step carries the stack addresses of Const32 (addr) and  *)
(* I32BinOp (left_addr, right_addr).  "x as u32 as u64" of a non-negative  *)
(* i32 is x; negative operands are not drawn.                              *)
(***************************************************************************)
MemoryTableEntry(eid, e, addr, ltype, atype, is_mutable, value) ==
    [eid |-> eid, emid |-> e, addr |-> addr, ltype |-> ltype, atype |-> atype,
     is_mutable |-> is_mutable, value |-> value]

\* A faulty straddle test that is off by one at the word boundary.
Straddles_off_by_one(effective_address, byte_size) ==
    (effective_address % 8) + byte_size >= 8

\* The test of the Load and Store arms for an access that crosses into the next word.
Straddles(effective_address, byte_size) == (effective_address % 8) + byte_size > 8

\* A faulty I32BinOp arm that reads the left operand first.
I32BinOpEvents_left_first(eid, e, si) ==
    << MemoryTableEntry(eid, e, si.left_addr, "Stack", "Read", TRUE, si.left),
       MemoryTableEntry(eid, e + 1, si.right_addr, "Stack", "Read", TRUE, si.right),
       MemoryTableEntry(eid, e + 2, si.left_addr, "Stack", "Write", TRUE, si.value) >>

\* The operations of the I32BinOp arm.
I32BinOpEvents(eid, e, si) ==
    << MemoryTableEntry(eid, e, si.right_addr, "Stack", "Read", TRUE, si.right),
       MemoryTableEntry(eid, e + 1, si.left_addr, "Stack", "Read", TRUE, si.left),
       MemoryTableEntry(eid, e + 2, si.left_addr, "Stack", "Write", TRUE, si.value) >>

\* A faulty Load arm whose first heap read carries the loaded sub-field.
LoadEvents_sub_field(eid, e, si, sp_before_execution) ==
    LET load_address_from_stack ==
            MemoryTableEntry(eid, e, sp_before_execution + 1, "Stack", "Read",
                             TRUE, si.raw_address)
        e1 == e + 1
        load_value1 ==
            MemoryTableEntry(eid, e1, si.effective_address \div 8, "Heap", "Read",
                             TRUE, si.value)
        straddle == Straddles(si.effective_address, ReadByteSize(si.load_size))
        e2 == IF straddle THEN e1 + 1 ELSE e1
        load_value2 ==
            IF straddle
            THEN << MemoryTableEntry(eid, e2, si.effective_address \div 8 + 1,
                                     "Heap", "Read", TRUE, si.block_value2) >>
            ELSE << >>
        e3 == e2 + 1
        push_value ==
            MemoryTableEntry(eid, e3, sp_before_execution + 1, "Stack", "Write",
                             TRUE, si.value)
    IN  [ops |-> << load_address_from_stack, load_value1 >> \o load_value2
                     \o << push_value >>,
         emid |-> e3]

\* A faulty Load arm that does not advance the counter for the second heap read.
LoadEvents_stale_emid(eid, e, si, sp_before_execution) ==
    LET load_address_from_stack ==
            MemoryTableEntry(eid, e, sp_before_execution + 1, "Stack", "Read",
                             TRUE, si.raw_address)
        e1 == e + 1
        load_value1 ==
            MemoryTableEntry(eid, e1, si.effective_address \div 8, "Heap", "Read",
                             TRUE, si.block_value1)
        straddle == Straddles(si.effective_address, ReadByteSize(si.load_size))
        load_value2 ==
            IF straddle
            THEN << MemoryTableEntry(eid, e1, si.effective_address \div 8 + 1,
                                     "Heap", "Read", TRUE, si.block_value2) >>
            ELSE << >>
        e3 == e1 + 1
        push_value ==
            MemoryTableEntry(eid, e3, sp_before_execution + 1, "Stack", "Write",
                             TRUE, si.value)
    IN  [ops |-> << load_address_from_stack, load_value1 >> \o load_value2
                     \o << push_value >>,
         emid |-> e3]

\* The operations of the Load arm and the value the counter is left at.
LoadEvents(eid, e, si, sp_before_execution) ==
    LET load_address_from_stack ==
            MemoryTableEntry(eid, e, sp_before_execution + 1, "Stack", "Read",
                             TRUE, si.raw_address)
        e1 == e + 1
        load_value1 ==
            MemoryTableEntry(eid, e1, si.effective_address \div 8, "Heap", "Read",
                             TRUE, si.block_value1)
        straddle == Straddles(si.effective_address, ReadByteSize(si.load_size))
        e2 == IF straddle THEN e1 + 1 ELSE e1
        load_value2 ==
            IF straddle
            THEN << MemoryTableEntry(eid, e2, si.effective_address \div 8 + 1,
                                     "Heap", "Read", TRUE, si.block_value2) >>
            ELSE << >>
        e3 == e2 + 1
        push_value ==
            MemoryTableEntry(eid, e3, sp_before_execution + 1, "Stack", "Write",
                             TRUE, si.value)
    IN  [ops |-> << load_address_from_stack, load_value1 >> \o load_value2
                     \o << push_value >>,
         emid |-> e3]

\* A faulty Store arm that reads the address operand before the value operand.
StoreEvents_address_first(eid, e, si, sp_before_execution) ==
    LET load_value_from_stack ==
            MemoryTableEntry(eid, e, sp_before_execution + 1, "Stack", "Read",
                             TRUE, si.value)
        load_address_from_stack ==
            MemoryTableEntry(eid, e + 1, sp_before_execution + 2, "Stack", "Read",
                             TRUE, si.raw_address)
        load_value1 ==
            MemoryTableEntry(eid, e + 2, si.effective_address \div 8, "Heap",
                             "Read", TRUE, si.pre_block_value1)
        write_value1 ==
            MemoryTableEntry(eid, e + 3, si.effective_address \div 8, "Heap",
                             "Write", TRUE, si.updated_block_value1)
        load_value2 ==
            MemoryTableEntry(eid, e + 4, si.effective_address \div 8 + 1, "Heap",
                             "Read", TRUE, si.pre_block_value2)
        write_value2 ==
            MemoryTableEntry(eid, e + 5, si.effective_address \div 8 + 1, "Heap",
                             "Write", TRUE, si.updated_block_value2)
    IN  IF Straddles(si.effective_address, StoreByteSize(si.store_size))
        THEN [ops |-> << load_address_from_stack, load_value_from_stack,
                         load_value1, write_value1, load_value2, write_value2 >>,
              emid |-> e + 5]
        ELSE [ops |-> << load_address_from_stack, load_value_from_stack,
                         load_value1, write_value1 >>,
              emid |-> e + 3]

\* The operations of the Store arm and the value the counter is left at.
StoreEvents(eid, e, si, sp_before_execution) ==
    LET load_value_from_stack ==
            MemoryTableEntry(eid, e, sp_before_execution + 1, "Stack", "Read",
                             TRUE, si.value)
        load_address_from_stack ==
            MemoryTableEntry(eid, e + 1, sp_before_execution + 2, "Stack", "Read",
                             TRUE, si.raw_address)
        load_value1 ==
            MemoryTableEntry(eid, e + 2, si.effective_address \div 8, "Heap",
                             "Read", TRUE, si.pre_block_value1)
        write_value1 ==
            MemoryTableEntry(eid, e + 3, si.effective_address \div 8, "Heap",
                             "Write", TRUE, si.updated_block_value1)
        load_value2 ==
            MemoryTableEntry(eid, e + 4, si.effective_address \div 8 + 1, "Heap",
                             "Read", TRUE, si.pre_block_value2)
        write_value2 ==
            MemoryTableEntry(eid, e + 5, si.effective_address \div 8 + 1, "Heap",
                             "Write", TRUE, si.updated_block_value2)
    IN  IF Straddles(si.effective_address, StoreByteSize(si.store_size))
        THEN [ops |-> << load_value_from_stack, load_address_from_stack,
                         load_value1, write_value1, load_value2, write_value2 >>,
              emid |-> e + 5]
        ELSE [ops |-> << load_value_from_stack, load_address_from_stack,
                         load_value1, write_value1 >>,
              emid |-> e + 3]

\* A faulty translation that takes the stack base from the entry's sp.
memory_event_of_step_sp_relative(ev, e) ==
    LET eid == ev.eid
        sp_before_execution == ev.sp
        si == ev.step_info
    IN  CASE si.variant = "Return" -> [ops |-> << >>, emid |-> e]
          [] si.variant = "Drop" -> [ops |-> << >>, emid |-> e]
          [] si.variant = "Load" -> LoadEvents(eid, e, si, sp_before_execution)
          [] si.variant = "Store" -> StoreEvents(eid, e, si, sp_before_execution)
          [] si.variant = "Const32" ->
               [ops |-> << MemoryTableEntry(eid, e, si.addr, "Stack", "Write", FALSE,
                                            si.value) >>,
                emid |-> e]
          [] si.variant = "I32BinOp" ->
               [ops |-> I32BinOpEvents(eid, e, si), emid |-> e + 2]
          [] OTHER -> [ops |-> << >>, emid |-> e]

\* Returns the operations and the value the counter *emid is left at.
memory_event_of_step(ev, e) ==
    LET eid == ev.eid
        sp_before_execution == 0
        si == ev.step_info
    IN  CASE si.variant = "Return" -> [ops |-> << >>, emid |-> e]
          [] si.variant = "Drop" -> [ops |-> << >>, emid |-> e]
          [] si.variant = "Load" -> LoadEvents(eid, e, si, sp_before_execution)
          [] si.variant = "Store" -> StoreEvents(eid, e, si, sp_before_execution)
          [] si.variant = "Const32" ->
               [ops |-> << MemoryTableEntry(eid, e, si.addr, "Stack", "Write", FALSE,
                                            si.value) >>,
                emid |-> e]
          [] si.variant = "I32BinOp" ->
               [ops |-> I32BinOpEvents(eid, e, si), emid |-> e + 2]
          [] OTHER -> [ops |-> << >>, emid |-> e]       \* _ => vec![]

\* A faulty get_mtable that concatenates the steps' lists last step first.
get_mtable_last_first(entries) ==
    Concat([i \in 1..Len(entries) |->
               memory_event_of_step(entries[Len(entries) + 1 - i], 1).ops])

\* Tracer::get_mtable / ETable::get_mtable: every step is translated with a fresh
\* counter (&mut 1) and the lists are concatenated.
get_mtable(entries) ==
    Concat([i \in 1..Len(entries) |-> memory_event_of_step(entries[i], 1).ops])

(***************************************************************************)
(* IMTable: push, Tracer::push_init_memory, Tracer::push_global.           *)
(* A u32 offset above 2^31-1 is represented by the signed integer with the *)
(* same 32 bits, so u32::MAX is -1.                                        *)
(***************************************************************************)
WordsPerPage == 8192
U32Max == -1

IMTable_push(t, is_global, is_mutable, start_offset, end_offset, vtype, value) ==
    Append(t, [ltype |-> IF is_global THEN "Global" ELSE "Heap",
               is_mutable |-> is_mutable,
               start_offset |-> start_offset,
               end_offset |-> end_offset,
               vtype |-> vtype,
               value |-> value])

\* memref.read: the byte of the memory at an address.  Image "zero" is a memory
\* without data segments, image "data" one with initialised bytes.
MemByte(mem, a) ==
    IF mem.image = "zero" THEN 0
    ELSE IF a % 8 < 2 THEN ((a \div 8) * 3 + a + 1) % 256 ELSE 0

MemRead(mem, offset) == [j \in 1..8 |-> MemByte(mem, offset + j - 1)]

\* u64::from_le_bytes
ULeFrom(buf) == UFrom([j \in 1..Len(buf) |-> buf[Len(buf) + 1 - j]])

\* The word entries pushed by the loop of push_init_memory.
InitWords(mem) ==
    [k \in 1..(mem.initial_pages * WordsPerPage) |->
        [ltype |-> "Heap", is_mutable |-> TRUE, start_offset |-> k - 1,
         end_offset |-> k - 1, vtype |-> "I64",
         value |-> ULeFrom(MemRead(mem, (k - 1) * 8))]]

\* The outcomes of push_init_memory.  With a declared maximum of 0 pages
\* "limit * 8192 - 1" underflows u32: a build with overflow checks panics, one
\* without wraps to u32::MAX.
push_init_memory(t, mem) ==
    LET pages == mem.initial_pages
        words == t \o InitWords(mem)
        max_pages == mem.maximum_pages
        sentinel(end) == IMTable_push(words, FALSE, TRUE, pages * WordsPerPage, end, "I64", 0)
    IN  IF ~max_pages.some THEN { Ok(sentinel(U32Max)) }
        ELSE IF max_pages.v = 0 THEN { Panic, Ok(sentinel(U32Max)) }
        ELSE { Ok(sentinel(max_pages.v * WordsPerPage - 1)) }

\* A global is [mutable, content, value]: its mutability, value type and the bits of
\* its initial value.
push_global(t, globalidx, g) ==
    IMTable_push(t, TRUE, g.mutable, globalidx, globalidx, g.content, g.value)

CountOf(t, ltype) == Cardinality({i \in 1..Len(t) : t[i].ltype = ltype})

(***************************************************************************)
(* Values handed to the operations.                                        *)
(***************************************************************************)
None == [some |-> FALSE]
Some(x) == [some |-> TRUE, v |-> x]

NumSamples == 6      \* StepInfo values drawn per variant

I32Min == -2147483647 - 1
I32Max == 0 - (I32Min + 1)

KindSamples(kind) ==
    CASE kind = "i32" -> << 0, 1, -1, I32Max, I32Min, 258 >>
      [] kind = "i64" -> << 0, -1, 1, I32Min, I32Max, -258 >>
      [] kind \in {"u32", "u64", "usize"} -> << 0, 1, 255, 256, 65537, I32Max >>
      [] kind \in {"f32", "f64"} -> << 0, 1065353216, 1, 2139095040, 255, 65536 >>
      [] kind = "bool" -> << TRUE, FALSE >>
      [] kind = "vec_u64" -> << << >>, << 1 >>, << 0, I32Max >>, << 256, 1, 2 >> >>
      [] OTHER -> EnumNames(kind)

SampleValue(kind, k) == KindSamples(kind)[(k % Len(KindSamples(kind))) + 1]

\* The variants of enum StepInfo, by tag.
StepInfoVariants == {decode_layout(t).variant : t \in 0..59}

\* The k-th drawn value of a variant: field i holds the (k+i)-th sample of its type.
StepInfoSample(variant, k) ==
    LET fs == encode_layout(variant).fields
        idx(f) == CHOOSE i \in 1..Len(fs) : fs[i][1] = f
    IN  [f \in {fs[i][1] : i \in 1..Len(fs)} \cup {"variant"} |->
            IF f = "variant" THEN variant ELSE SampleValue(fs[idx(f)][2], k + idx(f))]

StepInfoSamples == {StepInfoSample(v, k) : v \in StepInfoVariants, k \in 0..(NumSamples - 1)}

(***************************************************************************)
(* The state after Tracer::new(), before any operation.                    *)
(***************************************************************************)
NoMemory == [initial_pages |-> 0, maximum_pages |-> None, image |-> "zero"]

Fresh ==
    /\ imtable = << >>
    /\ etable = << >>
    /\ mtable = << >>
    /\ shards = << >>
    /\ num_shards = 0
    /\ rebuilt = None
    /\ event = None
    /\ emid = 1
    /\ ops = << >>
    /\ step_info = None
    /\ bytes = << >>
    /\ decoded = None
    /\ last_op = "new"
    /\ panicked = FALSE
    /\ shard_index = 0

(***************************************************************************)
(* The step codec on one value: StepInfo::encode, then StepInfo::decode of *)
(* the bytes it returned.                                                  *)
(***************************************************************************)
Encode(v) ==
    /\ ~panicked
    /\ step_info' = Some(v)
    /\ last_op' = "encode"
    /\ decoded' = None
    /\ IF encode(v).ok
       THEN bytes' = encode(v).v /\ panicked' = FALSE
       ELSE bytes' = << >> /\ panicked' = TRUE
    /\ UNCHANGED << memory, imtable, etable, mtable, shards, num_shards, shard_index, rebuilt, event, emid, ops >>

Decode ==
    /\ ~panicked
    /\ last_op = "encode"
    /\ last_op' = "decode"
    /\ IF decode(bytes).ok
       THEN decoded' = Some(decode(bytes).v) /\ panicked' = FALSE
       ELSE decoded' = None /\ panicked' = TRUE
    /\ UNCHANGED << memory, imtable, etable, mtable, shards, num_shards, shard_index, rebuilt, event, emid, ops,
                    step_info, bytes >>

InitCodec == memory = NoMemory /\ Fresh

NextCodec == (\E v \in StepInfoSamples : Encode(v)) \/ Decode

SpecCodec == InitCodec /\ [][NextCodec]_vars

\* C2: decode(encode(v)) returns a value equal to v and does not abort.
C2_CodecRoundTrip ==
    last_op = "decode" => (~panicked /\ decoded = step_info)

(***************************************************************************)
(* The Tracer while the interpreter runs and afterwards: ETable::push per  *)
(* executed instruction, get_mtable on the table built so far.             *)
(***************************************************************************)
BinOpStep == [variant |-> "I32BinOp", class |-> "Add", left |-> 100, right |-> 200,
              value |-> 300, left_addr |-> 1, right_addr |-> 2]
DropStep == [variant |-> "Drop"]
LoadStep(a, size) ==
    [variant |-> "Load", vtype |-> "I64", load_size |-> size, offset |-> 0,
     raw_address |-> a, effective_address |-> a, value |-> 7, block_value1 |-> 1799,
     block_value2 |-> 2056]
StoreStep(a, size) ==
    [variant |-> "Store", vtype |-> "I64", store_size |-> size,
     offset |-> IF a >= 4 THEN 4 ELSE 0,
     raw_address |-> IF a >= 4 THEN a - 4 ELSE a,
     effective_address |-> a, pre_block_value1 |-> 1799,
     updated_block_value1 |-> 1801, pre_block_value2 |-> 2056,
     updated_block_value2 |-> 2058, value |-> 9]
Const32Step == [variant |-> "Const32", value |-> 100, addr |-> 1]
SelectStep == [variant |-> "Select", val1 |-> 5, val2 |-> 6, cond |-> 1, result |-> 5]

\* What the interpreter hands to push: page count, step and stack pointer.
PushInputs ==
    { [pages |-> 1, si |-> BinOpStep, sp |-> 3],
      [pages |-> 1, si |-> DropStep, sp |-> 2],
      [pages |-> 1, si |-> LoadStep(6, "U32"), sp |-> 2],
      [pages |-> 2, si |-> StoreStep(12, "Byte64"), sp |-> 1],
      [pages |-> 1, si |-> LoadStep(0, "U8"), sp |-> 2],
      [pages |-> 1, si |-> StoreStep(8, "Byte8"), sp |-> 3],
      [pages |-> 1, si |-> Const32Step, sp |-> 2],
      [pages |-> 1, si |-> SelectStep, sp |-> 4] }

Push(inp) ==
    /\ ~panicked
    /\ Len(etable) < MaxSteps
    /\ etable' = push(etable, inp.pages, inp.si, inp.sp)
    /\ last_op' = "push"
    /\ UNCHANGED << memory, imtable, mtable, shards, num_shards, shard_index, rebuilt, event, emid, ops,
                    step_info, bytes, decoded, panicked >>

GetMtable ==
    /\ ~panicked
    /\ mtable' = get_mtable(etable)
    /\ last_op' = "get_mtable"
    /\ UNCHANGED << memory, imtable, etable, shards, num_shards, shard_index, rebuilt, event, emid, ops,
                    step_info, bytes, decoded, panicked >>

Init == memory = NoMemory /\ Fresh

Next == (\E inp \in PushInputs : Push(inp)) \/ GetMtable

Spec == Init /\ [][Next]_vars

(***************************************************************************)
(* memory_event_of_step on single steps, one counter threaded through the  *)
(* calls.                                                                  *)
(***************************************************************************)
MaxAddress == 15     \* largest effective address of a drawn Load or Store

StepInfosOfMtable ==
    {LoadStep(a, size) : a \in 0..MaxAddress,
                         size \in {MemoryReadSizeNames[i] : i \in 1..Len(MemoryReadSizeNames)}}
    \cup {StoreStep(a, size) : a \in 0..MaxAddress,
                               size \in {MemoryStoreSizeNames[i] :
                                            i \in 1..Len(MemoryStoreSizeNames)}}
    \cup {BinOpStep, Const32Step}
    \cup {StepInfoSample(v, 1) :
             v \in StepInfoVariants \ {"Load", "Store", "Const32", "I32BinOp"}}

\* The sp and allocated_memory_pages of the entries that are translated.
StepFrames ==
    { [sp |-> 2, pages |-> 1], [sp |-> 5, pages |-> 1], [sp |-> 2, pages |-> 2] }

MemoryEventOfStep(si) ==
    /\ ~panicked
    /\ emid <= MaxEmid
    /\ \E f \in StepFrames :
          LET ev == [eid |-> 1, allocated_memory_pages |-> f.pages, step_info |-> si,
                     sp |-> f.sp]
          IN  /\ event' = Some(ev)
              /\ ops' = memory_event_of_step(ev, emid).ops
              /\ emid' = memory_event_of_step(ev, emid).emid
    /\ last_op' = "memory_event_of_step"
    /\ UNCHANGED << memory, imtable, etable, mtable, shards, num_shards, shard_index, rebuilt,
                    step_info, bytes, decoded, panicked >>

InitStep == memory = NoMemory /\ Fresh

NextStep == \E si \in StepInfosOfMtable : MemoryEventOfStep(si)

SpecStep == InitStep /\ [][NextStep]_vars

(***************************************************************************)
(* The shard codec on a finished ETable: into_shards, then from_shards of  *)
(* the shards it returned.                                                 *)
(***************************************************************************)
ShardPushInputs ==
    [pages : {1, 2}, sp : {10, 11},
     si : { [variant |-> "I32Const", value |-> -1],
            [variant |-> "BrTable", index |-> 2, offset |-> 3] }]

RECURSIVE PushBuilt(_)
PushBuilt(n) ==
    IF n = 0 THEN { << >> }
    ELSE {push(t, inp.pages, inp.si, inp.sp) : t \in PushBuilt(n - 1), inp \in ShardPushInputs}

IntoShards(n) ==
    /\ ~panicked
    /\ num_shards' = n
    /\ shard_index' = 0
    /\ last_op' = "into_shards"
    /\ rebuilt' = None
    /\ IF into_shards(etable, n).ok
       THEN shards' = into_shards(etable, n).v /\ panicked' = FALSE
       ELSE shards' = << >> /\ panicked' = TRUE
    /\ UNCHANGED << memory, imtable, etable, mtable, event, emid, ops, step_info, bytes,
                    decoded >>

FromShards ==
    /\ ~panicked
    /\ last_op = "into_shards"
    /\ last_op' = "from_shards"
    /\ IF from_shards(shards).ok
       THEN rebuilt' = Some(from_shards(shards).v) /\ panicked' = FALSE
       ELSE rebuilt' = None /\ panicked' = TRUE
    /\ UNCHANGED << memory, imtable, etable, mtable, shards, num_shards, shard_index, event, emid, ops,
                    step_info, bytes, decoded >>

\* from_shard on one of the shards into_shards returned.
FromShard(c) ==
    /\ ~panicked
    /\ last_op = "into_shards"
    /\ c \in 1..Len(shards)
    /\ shard_index' = c
    /\ last_op' = "from_shard"
    /\ IF from_shard(shards[c]).ok
       THEN rebuilt' = Some(from_shard(shards[c]).v) /\ panicked' = FALSE
       ELSE rebuilt' = None /\ panicked' = TRUE
    /\ UNCHANGED << memory, imtable, etable, mtable, shards, num_shards, event, emid, ops,
                    step_info, bytes, decoded >>

\* from_shards on a sequence a client assembled from the shards it holds: any two of
\* them in any order, or one of them.
ShardSequences(ss) ==
    {<< ss[i] >> : i \in 1..Len(ss)} \cup {<< ss[i], ss[j] >> : i, j \in 1..Len(ss)}

FromShardsOf(ss) ==
    /\ ~panicked
    /\ last_op = "into_shards"
    /\ shards' = ss
    /\ last_op' = "from_shards_of"
    /\ IF from_shards(ss).ok
       THEN rebuilt' = Some(from_shards(ss).v) /\ panicked' = FALSE
       ELSE rebuilt' = None /\ panicked' = TRUE
    /\ UNCHANGED << memory, imtable, etable, mtable, num_shards, shard_index, event, emid, ops,
                    step_info, bytes, decoded >>

InitShard ==
    /\ memory = NoMemory
    /\ Fresh!1 /\ Fresh!3 /\ Fresh!4 /\ Fresh!5 /\ Fresh!6 /\ Fresh!7 /\ Fresh!8 /\ Fresh!9
    /\ Fresh!10 /\ Fresh!11 /\ Fresh!12 /\ Fresh!13 /\ Fresh!14 /\ Fresh!15
    /\ etable \in UNION {PushBuilt(n) : n \in 0..MaxShardLen}

NextShard ==
    \/ \E n \in 0..(MaxShardLen + 1) : IntoShards(n)
    \/ FromShards
    \/ \E c \in 1..MaxShardLen : FromShard(c)
    \/ \E ss \in ShardSequences(shards) : FromShardsOf(ss)

SpecShard == InitShard /\ [][NextShard]_vars

(***************************************************************************)
(* The Tracer while a module is instantiated: push_init_memory for the     *)
(* memory, push_global for each global.                                    *)
(***************************************************************************)
\* Memory types with initial <= maximum and the two images.
Memories ==
    { [initial_pages |-> k, maximum_pages |-> m, image |-> img] :
         k \in 0..MaxPages, m \in {None} \cup {Some(j) : j \in 0..(MaxPages + 1)},
         img \in {"zero", "data"} }
    \ { mem \in [initial_pages : 0..MaxPages,
                 maximum_pages : {Some(j) : j \in 0..(MaxPages + 1)},
                 image : {"zero", "data"}] : mem.maximum_pages.v < mem.initial_pages }

Globals ==
    { [mutable |-> TRUE, content |-> "I32", value |-> 5],
      [mutable |-> FALSE, content |-> "I64", value |-> 0] }

\* Calls of push_init_memory so far: each left one entry that starts at the first
\* word past the committed pages.
InitCalls(t, mem) ==
    Cardinality({i \in 1..Len(t) :
                    t[i].ltype = "Heap"
                    /\ t[i].start_offset = mem.initial_pages * WordsPerPage})

PushInitMemory ==
    /\ ~panicked
    /\ InitCalls(imtable, memory) < MaxInitCalls
    /\ \E r \in push_init_memory(imtable, memory) :
          IF r.ok THEN imtable' = r.v /\ panicked' = FALSE
          ELSE imtable' = imtable \o InitWords(memory) /\ panicked' = TRUE
    /\ last_op' = "push_init_memory"
    /\ UNCHANGED << memory, etable, mtable, shards, num_shards, shard_index, rebuilt, event, emid, ops,
                    step_info, bytes, decoded >>

PushGlobal(g) ==
    /\ ~panicked
    /\ CountOf(imtable, "Global") < MaxGlobals
    /\ imtable' = push_global(imtable, CountOf(imtable, "Global"), g)
    /\ last_op' = "push_global"
    /\ UNCHANGED << memory, etable, mtable, shards, num_shards, shard_index, rebuilt, event, emid, ops,
                    step_info, bytes, decoded, panicked >>

InitIM == memory \in Memories /\ Fresh

NextIM == PushInitMemory \/ (\E g \in Globals : PushGlobal(g))

SpecIM == InitIM /\ [][NextIM]_vars

(***************************************************************************)
(* ETable's public interface used by a client: push, and the vector that   *)
(* entries_mut hands out.                                                  *)
(***************************************************************************)
IfaceInputs ==
    { [pages |-> 1, si |-> BinOpStep, sp |-> 3],
      [pages |-> 1, si |-> DropStep, sp |-> 2] }

ForeignEntry == [eid |-> 0, allocated_memory_pages |-> 1, step_info |-> DropStep, sp |-> 0]

\* entries_mut returns &mut Vec<ETEntry>: the client may assign an element ...
EntriesMutAssign(i) ==
    /\ ~panicked
    /\ i \in 1..Len(etable)
    /\ etable' = [etable EXCEPT ![i] = ForeignEntry]
    /\ last_op' = "entries_mut"
    /\ UNCHANGED << memory, imtable, mtable, shards, num_shards, shard_index, rebuilt, event, emid, ops,
                    step_info, bytes, decoded, panicked >>

\* ... or remove one.
EntriesMutRemove(i) ==
    /\ ~panicked
    /\ i \in 1..Len(etable)
    /\ etable' = SubSeq(etable, 1, i - 1) \o SubSeq(etable, i + 1, Len(etable))
    /\ last_op' = "entries_mut"
    /\ UNCHANGED << memory, imtable, mtable, shards, num_shards, shard_index, rebuilt, event, emid, ops,
                    step_info, bytes, decoded, panicked >>

InitIface == memory = NoMemory /\ Fresh

NextIface ==
    \/ \E inp \in IfaceInputs : Push(inp)
    \/ \E i \in 1..MaxSteps : EntriesMutAssign(i)
    \/ \E i \in 1..MaxSteps : EntriesMutRemove(i)

SpecIface == InitIface /\ [][NextIface]_vars

(***************************************************************************)
(* Properties.                                                             *)
(***************************************************************************)
\* C1: for a shard count N with 1 <= N <= len(E), into_shards(N) followed by
\* from_shards returns a table with the same entries as E, in the same order and
\* field for field (eid, allocated_memory_pages, sp, step_info).
C1_ShardRoundTrip ==
    (last_op \in {"into_shards", "from_shards"}
        /\ 1 <= num_shards /\ num_shards <= Len(etable))
    => /\ ~panicked
       /\ last_op = "from_shards" => rebuilt = Some(etable)

\* C3: in a table built from empty by push alone the entry at 0-based index i has
\* eid i + 1 (entry number n of the sequence has eid n): eids start at 1 and grow
\* by exactly 1 per push, without gap or reuse.
C3_EidIsPosition == \A n \in 1..Len(etable) : etable[n].eid = n

C3_Witness == last_op = "push" /\ Len(etable) >= 3

\* C4: in the table get_mtable returns, emid starts at 1 and every operation's emid
\* is strictly larger than that of every operation before it, operations of earlier
\* steps included.
C4_EmidGloballyMonotonic ==
    last_op = "get_mtable"
    => /\ mtable # << >> => mtable[1].emid = 1
       /\ \A i, j \in 1..Len(mtable) : i < j => mtable[i].emid < mtable[j].emid

\* (eid, emid) order of two operations.
EidEmidBefore(a, b) == a.eid < b.eid \/ (a.eid = b.eid /\ a.emid < b.emid)

\* r is a read the write w of the same step depends on: an operand or address read
\* from the stack, a heap word a loaded value is taken from, or the previous
\* content of the word w overwrites.
IsDataDependency(r, w) ==
    /\ r.eid = w.eid
    /\ r.atype = "Read"
    /\ w.atype = "Write"
    /\ (r.ltype = "Stack" \/ w.ltype = "Stack" \/ r.addr = w.addr)

\* C5: in the table get_mtable returns for a push-built ETable, two operations on
\* the same (location, addr) appear in their (eid, emid) order, and a read that is a
\* data dependency of a write of the same step appears strictly before that write.
C5_OrderMatchesEidEmid ==
    last_op = "get_mtable"
    => \A i, j \in 1..Len(mtable) :
          /\ (i < j /\ mtable[i].ltype = mtable[j].ltype /\ mtable[i].addr = mtable[j].addr)
                => EidEmidBefore(mtable[i], mtable[j])
          /\ IsDataDependency(mtable[i], mtable[j]) => i < j

C5_Witness ==
    /\ last_op = "get_mtable"
    /\ \E i, j \in 1..Len(mtable) :
          /\ i < j
          /\ mtable[i].ltype = "Heap" /\ mtable[j].ltype = "Heap"
          /\ mtable[i].addr = mtable[j].addr
          /\ mtable[i].eid < mtable[j].eid
    /\ \E i, j \in 1..Len(mtable) :
          IsDataDependency(mtable[i], mtable[j]) /\ mtable[i].ltype = "Heap"

\* The Heap operations of a list as (access, word) pairs.
HeapAccesses(o) ==
    LET heap == SelectSeq(o, LAMBDA m : m.ltype = "Heap")
    IN  [i \in 1..Len(heap) |-> << heap[i].atype, heap[i].addr >>]

\* Access size in bytes of a Load or Store step.
AccessSize(si) ==
    IF si.variant = "Load"
    THEN CASE si.load_size \in {"U8", "S8", "I32_8", "I64_8"} -> 1
           [] si.load_size \in {"U16", "S16", "I32_16", "I64_16"} -> 2
           [] si.load_size \in {"U32", "S32", "I32", "I64_32", "F32"} -> 4
           [] OTHER -> 8
    ELSE CASE si.store_size = "Byte8" -> 1
           [] si.store_size = "Byte16" -> 2
           [] si.store_size = "Byte32" -> 4
           [] OTHER -> 8

\* C6: for a Load or Store step with effective address a and access size s, if
\* a % 8 + s > 8 the step yields exactly two Heap reads (load) or two Heap
\* read/write pairs (store) on words a/8 and a/8 + 1, otherwise exactly one Heap
\* read or one read/write pair on word a/8.
C6_StraddleCounts ==
    (last_op = "memory_event_of_step" /\ event.v.step_info.variant \in {"Load", "Store"})
    => LET si == event.v.step_info
           a == si.effective_address
           w == a \div 8
           two == (a % 8) + AccessSize(si) > 8
       IN  IF si.variant = "Load"
           THEN HeapAccesses(ops) = IF two THEN << <<"Read", w>>, <<"Read", w + 1>> >>
                                    ELSE << <<"Read", w>> >>
           ELSE HeapAccesses(ops) = IF two
                                    THEN << <<"Read", w>>, <<"Write", w>>,
                                            <<"Read", w + 1>>, <<"Write", w + 1>> >>
                                    ELSE << <<"Read", w>>, <<"Write", w>> >>

C6_Witness ==
    /\ last_op = "memory_event_of_step"
    /\ event.v.step_info.variant = "Store"
    /\ event.v.step_info.effective_address % 8 = 5
    /\ event.v.step_info.store_size = "Byte32"
    /\ Len(ops) = 6

\* The scenario of run_wat: three I32BinOp{Add} steps, then one Drop step.
IsAddScenario(entries) ==
    /\ Len(entries) = 4
    /\ \A n \in 1..3 : entries[n].step_info.variant = "I32BinOp"
                       /\ entries[n].step_info.class = "Add"
    /\ entries[4].step_info.variant = "Drop"

\* C7: for three I32BinOp{Add} steps followed by a Drop step the memory table has
\* exactly 3 Stack operations per I32BinOp step, in the order read right operand,
\* read left operand, write result, and none for the Drop step.
C7_AddScenario ==
    (last_op = "get_mtable" /\ IsAddScenario(etable))
    => /\ Len(mtable) = 9
       /\ \A n \in 1..3 :
             LET si == etable[n].step_info
                 o == SubSeq(mtable, 3 * n - 2, 3 * n)
             IN  /\ \A k \in 1..3 : o[k].eid = etable[n].eid /\ o[k].ltype = "Stack"
                 /\ o[1].atype = "Read" /\ o[1].addr = si.right_addr
                 /\ o[1].value = si.right
                 /\ o[2].atype = "Read" /\ o[2].addr = si.left_addr
                 /\ o[2].value = si.left
                 /\ o[3].atype = "Write" /\ o[3].value = si.value
       /\ \A i \in 1..Len(mtable) : mtable[i].eid # etable[4].eid

C7_Witness == last_op = "get_mtable" /\ IsAddScenario(etable) /\ Len(mtable) = 9

\* C8: for a memory with k initially committed pages push_init_memory adds exactly
\* 8192*k word entries, one per word index 0 .. 8192*k - 1 with start_offset =
\* end_offset = word index, and after them exactly 1 sentinel entry.
C8_InitMemoryEntries ==
    [][last_op' = "push_init_memory"
       => LET k == memory.initial_pages
              base == Len(imtable)
          IN  /\ Len(imtable') = base + 8192 * k + 1
              /\ SubSeq(imtable', 1, base) = imtable
              /\ \A i \in 0..(8192 * k - 1) :
                    /\ imtable'[base + i + 1].ltype = "Heap"
                    /\ imtable'[base + i + 1].start_offset = i
                    /\ imtable'[base + i + 1].end_offset = i
              /\ imtable'[base + 8192 * k + 1].ltype = "Heap"
              /\ imtable'[base + 8192 * k + 1].start_offset = 8192 * k]_vars

\* C9: every entry that was pushed stays at its position with unchanged eid,
\* allocated_memory_pages, sp and step_info under every operation of ETable's
\* public interface.
C9_EntriesImmutable ==
    [][/\ Len(etable') >= Len(etable)
       /\ \A i \in 1..Len(etable) : etable'[i] = etable[i]]_vars

\* C10: memory_event_of_step returns an empty list without aborting only for Drop
\* and the control-flow-only variants.
C10_EmptyOnlyForControlFlow ==
    (last_op = "memory_event_of_step" /\ ~panicked /\ ops = << >>)
    => event.v.step_info.variant
          \in {"Drop", "Br", "BrIfEqz", "BrIfNez", "BrAdjust", "BrTable", "CallInternal"}

(***************************************************************************)
(* StepInfo::decode on a byte buffer that need not come from encode.       *)
(***************************************************************************)
\* The variant encode writes a tag for.
VariantOfTag(t) == CHOOSE v \in StepInfoVariants : encode_layout(v).tag = t

\* How a buffer stands against the layout encode writes for its tag, field by field
\* from offset off: "truncated" when a field (or a list element its count
\* announces) lies beyond the end, "malformed" when an operator-class, type, size or
\* boolean byte is outside its assigned values, "whole" otherwise.
RECURSIVE LayoutClass(_, _, _, _)
LayoutClass(bs, fields, i, off) ==
    IF i > Len(fields) THEN "whole"
    ELSE LET kind == fields[i][2]
         IN  IF kind \in IntKinds
             THEN IF off + Width(kind) > Len(bs) THEN "truncated"
                  ELSE LayoutClass(bs, fields, i + 1, off + Width(kind))
             ELSE IF kind = "vec_u64"
             THEN IF off + 4 > Len(bs) THEN "truncated"
                  ELSE LET n == UFrom(Slice(bs, off, off + 4))
                       IN  IF n > Len(bs) \/ off + 4 + 8 * n > Len(bs) THEN "truncated"
                           ELSE LayoutClass(bs, fields, i + 1, off + 4 + 8 * n)
             ELSE IF off >= Len(bs) THEN "truncated"
             ELSE IF bs[off + 1] >= (IF kind = "bool" THEN 2 ELSE Len(EnumNames(kind)))
             THEN "malformed"
             ELSE LayoutClass(bs, fields, i + 1, off + 1)

\* Tag-unrecognized, truncated or malformed.
IsBadBuffer(bs) ==
    \/ bs = << >>
    \/ bs[1] > 59
    \/ LayoutClass(bs, encode_layout(VariantOfTag(bs[1])).fields, 1, 1) # "whole"

MaxPrefixSamples == 2     \* drawn values per variant whose encodings are cut short
BadByte == 100            \* a byte outside every operator class, type, size and boolean

\* The encoding of a drawn value (samples on which encode's assertions fail are
\* left out).
Encodings(n) ==
    {encode(StepInfoSample(v, k)).v :
        v \in {w \in StepInfoVariants : \A j \in 0..(n - 1) : encode(StepInfoSample(w, j)).ok},
        k \in 0..(n - 1)}

\* Buffers handed to decode: whole encodings, every cut of an encoding, the empty
\* buffer, buffers with an unassigned tag, and encodings with one operator-class,
\* type, size or boolean byte replaced.
Buffers ==
    Encodings(NumSamples)
    \cup UNION {{SubSeq(b, 1, n) : n \in 0..Len(b)} : b \in Encodings(MaxPrefixSamples)}
    \cup {<< t >> \o SubSeq(b, 2, Len(b)) : b \in Encodings(1), t \in {60, 255}}
    \cup UNION {{c \in {[b EXCEPT ![p] = BadByte] : p \in 2..Len(b)} :
                    LayoutClass(c, encode_layout(VariantOfTag(c[1])).fields, 1, 1)
                        = "malformed"} : b \in Encodings(MaxPrefixSamples)}

DecodeBytes ==
    /\ last_op = "new"
    /\ last_op' = "decode_bytes"
    /\ IF decode(bytes).ok
       THEN decoded' = Some(decode(bytes).v) /\ panicked' = FALSE
       ELSE decoded' = None /\ panicked' = TRUE
    /\ UNCHANGED << memory, imtable, etable, mtable, shards, num_shards, shard_index, rebuilt, event, emid, ops,
                    step_info, bytes >>

InitDecode ==
    /\ memory = NoMemory
    /\ Fresh!1 /\ Fresh!2 /\ Fresh!3 /\ Fresh!4 /\ Fresh!5 /\ Fresh!6 /\ Fresh!7 /\ Fresh!8
    /\ Fresh!9 /\ Fresh!10 /\ Fresh!12 /\ Fresh!13 /\ Fresh!14 /\ Fresh!15
    /\ bytes \in Buffers

NextDecode == DecodeBytes

SpecDecode == InitDecode /\ [][NextDecode]_vars

\* C11: decode fails fatally and returns no StepInfo on every buffer that is
\* tag-unrecognized, truncated or malformed.
C11_DecodeRejectsBadBuffers ==
    (last_op = "decode_bytes" /\ IsBadBuffer(bytes)) => (panicked /\ ~decoded.some)

\* The c-th of n contiguous runs of a table of length L: the first L % n runs have
\* L \div n + 1 entries, the others L \div n.
RunStart(L, n, c) == (c - 1) * (L \div n) + (IF c - 1 < L % n THEN c - 1 ELSE L % n)

RunLen(L, n, c) == (L \div n) + (IF c <= L % n THEN 1 ELSE 0)

RunOf(entries, n, c) ==
    SubSeq(entries, RunStart(Len(entries), n, c) + 1,
           RunStart(Len(entries), n, c) + RunLen(Len(entries), n, c))

\* C12: for N in [1, len(E)], each shard of into_shards(N) taken alone reconstructs
\* through from_shard exactly the contiguous run of entries it was built from.
C12_ShardAloneRebuildsRun ==
    (last_op = "from_shard" /\ 1 <= num_shards /\ num_shards <= Len(etable))
    => /\ ~panicked
       /\ rebuilt = Some(RunOf(etable, num_shards, shard_index))

\* The number of encoded-instruction markers of a shard.
NumInstructions(shard) == Len(SelectSeq(shard.steps, LAMBDA st : st.t = "I"))

\* A shard sequence in which some shard's baseline eid is not the previous shard's
\* baseline eid plus the previous shard's number of instructions.
IsInconsistent(ss) ==
    \E i \in 2..Len(ss) : ss[i].eid # ss[i - 1].eid + NumInstructions(ss[i - 1])

\* C13: from_shards rejects a shard sequence with an inconsistent baseline or
\* non-contiguous eids and returns no ETable for it.
C13_RejectsInconsistentShards ==
    (last_op = "from_shards_of" /\ IsInconsistent(shards)) => (panicked /\ ~rebuilt.some)

(***************************************************************************)
(* The Tracer as the object its holder sees: push_init_memory, push_global *)
(* and etable.push are callable in any order.                              *)
(***************************************************************************)
\* Memories without committed pages, so that the snapshot is the sentinel alone.
TracerMemories == {mem \in Memories : mem.initial_pages = 0}

InitTracer == memory \in TracerMemories /\ Fresh

NextTracer ==
    \/ PushInitMemory
    \/ \E g \in Globals : PushGlobal(g)
    \/ \E inp \in IfaceInputs : Push(inp)

SpecTracer == InitTracer /\ [][NextTracer]_vars

\* C14: the IMTable is populated before any step is pushed and read-only afterwards:
\* once the ETable has an entry no IMTable entry is appended, changed or removed, and
\* a recorded IMTable entry is never changed or removed.
C14_IMTableReadOnlyAfterFirstPush ==
    [][/\ etable # << >> => imtable' = imtable
       /\ Len(imtable') >= Len(imtable)
       /\ SubSeq(imtable', 1, Len(imtable)) = imtable]_vars

\* The markers of a shard cut into one group per entry: each group ends with its
\* encoded-instruction marker.
RECURSIVE MarkerGroups(_, _)
MarkerGroups(steps, group) ==
    IF steps = << >> THEN (IF group = << >> THEN << >> ELSE << group >>)
    ELSE IF Head(steps).t = "I"
         THEN << Append(group, Head(steps)) >> \o MarkerGroups(Tail(steps), << >>)
         ELSE MarkerGroups(Tail(steps), Append(group, Head(steps)))

HasMarker(group, t) == \E i \in 1..Len(group) : group[i].t = t

\* C15: within a shard an entry gets a page-count marker M only when its
\* allocated_memory_pages differs from the previous entry's of the same shard (for
\* the first entry: from the shard baseline); an entry with the same page count as
\* the previous one gets none.
C15_PageMarkerOnlyOnChange ==
    (last_op = "into_shards" /\ ~panicked)
    => \A c \in 1..Len(shards) :
          LET run == RunOf(etable, num_shards, c)
              groups == MarkerGroups(shards[c].steps, << >>)
          IN  \A k \in 1..Len(groups) :
                 HasMarker(groups[k], "M")
                 => run[k].allocated_memory_pages
                       # (IF k = 1 THEN shards[c].allocated_memory_pages
                          ELSE run[k - 1].allocated_memory_pages)

MarkersOf(group, t) == SelectSeq(group, LAMBDA st : st.t = t)

\* C16: within a shard an entry gets a stack-pointer delta marker D only when its sp
\* differs from the previous entry's sp (none for the first entry, none on zero
\* delta), the delta being the signed difference of the two; and every entry gets
\* exactly one encoded-instruction marker I, after its M and D markers.
C16_DeltaAndInstructionMarkers ==
    (last_op = "into_shards" /\ ~panicked)
    => \A c \in 1..Len(shards) :
          LET run == RunOf(etable, num_shards, c)
              groups == MarkerGroups(shards[c].steps, << >>)
          IN  /\ Len(groups) = Len(run)
              /\ \A k \in 1..Len(groups) :
                    LET moved == k > 1 /\ run[k].sp # run[k - 1].sp
                        ds == MarkersOf(groups[k], "D")
                    IN  /\ Len(ds) = (IF moved THEN 1 ELSE 0)
                        /\ moved => ds[1].v = run[k].sp - run[k - 1].sp
                        /\ groups[k][Len(groups[k])]
                              = [t |-> "I", v |-> encode(run[k].step_info).v]
                        /\ Len(MarkersOf(groups[k], "I")) = 1

C16_Witness ==
    /\ last_op = "into_shards" /\ ~panicked
    /\ \E c \in 1..Len(shards) :
          LET run == RunOf(etable, num_shards, c)
              groups == MarkerGroups(shards[c].steps, << >>)
          IN  /\ Len(run) >= 3
              /\ run[2].sp < run[1].sp /\ run[3].sp = run[2].sp
              /\ HasMarker(groups[2], "D") /\ ~HasMarker(groups[3], "D")

\* C17: for a table of length L and 1 <= N <= L into_shards(N) cuts the entries into
\* N contiguous runs in order, the first L % N of floor(L/N) + 1 entries and the
\* others of floor(L/N), and each shard's baseline (eid, stack_pointer,
\* allocated_memory_pages) is that of the first entry of its run.
C17_EvenContiguousRuns ==
    (last_op = "into_shards" /\ 1 <= num_shards /\ num_shards <= Len(etable))
    => /\ ~panicked
       /\ Len(shards) = num_shards
       /\ \A c \in 1..num_shards :
             LET L == Len(etable)
                 size == (L \div num_shards) + (IF c <= L % num_shards THEN 1 ELSE 0)
                 first == (c - 1) * (L \div num_shards)
                             + (IF c - 1 < L % num_shards THEN c - 1 ELSE L % num_shards) + 1
                 instrs == MarkersOf(shards[c].steps, "I")
             IN  /\ Len(instrs) = size
                 /\ \A k \in 1..size :
                       instrs[k].v = encode(etable[first + k - 1].step_info).v
                 /\ shards[c].eid = etable[first].eid
                 /\ shards[c].stack_pointer = etable[first].sp
                 /\ shards[c].allocated_memory_pages = etable[first].allocated_memory_pages

C17_Witness ==
    /\ last_op = "into_shards" /\ ~panicked
    /\ num_shards = 2 /\ Len(etable) = 3
    /\ NumInstructions(shards[1]) = 2 /\ NumInstructions(shards[2]) = 1

\* The operations of a list as (location, access, value) triples.
Accesses(o) == [i \in 1..Len(o) |-> << o[i].ltype, o[i].atype, o[i].value >>]

\* C18: a Load step yields, in this order, a Stack read of the raw address operand,
\* a Heap read of word effective_address / 8 carrying the full word block_value1,
\* when effective_address % 8 + size > 8 a Heap read of word effective_address / 8 + 1
\* carrying block_value2, and last a Stack write of the decoded value.
C18_LoadOrder ==
    (last_op = "memory_event_of_step" /\ event.v.step_info.variant = "Load")
    => LET si == event.v.step_info
           w == si.effective_address \div 8
           two == (si.effective_address % 8) + AccessSize(si) > 8
       IN  /\ Accesses(ops)
                = << << "Stack", "Read", si.raw_address >>,
                     << "Heap", "Read", si.block_value1 >> >>
                  \o (IF two THEN << << "Heap", "Read", si.block_value2 >> >> ELSE << >>)
                  \o << << "Stack", "Write", si.value >> >>
           /\ ops[2].addr = w
           /\ two => ops[3].addr = w + 1

C18_Witness ==
    /\ last_op = "memory_event_of_step"
    /\ event.v.step_info.variant = "Load"
    /\ event.v.step_info.effective_address % 8 = 7
    /\ event.v.step_info.load_size = "U16"
    /\ Len(ops) = 4

\* C19: a Store step yields, in this order, a Stack read of the value operand, a
\* Stack read of the address operand, a Heap read of the pre-image and a Heap write
\* of the post-image of word effective_address / 8, and when the access straddles a
\* word boundary a Heap read of the pre-image and a Heap write of the post-image of
\* word effective_address / 8 + 1.
C19_StoreOrder ==
    (last_op = "memory_event_of_step" /\ event.v.step_info.variant = "Store")
    => LET si == event.v.step_info
           w == si.effective_address \div 8
           two == (si.effective_address % 8) + AccessSize(si) > 8
       IN  /\ Accesses(ops)
                = << << "Stack", "Read", si.value >>,
                     << "Stack", "Read", si.raw_address >>,
                     << "Heap", "Read", si.pre_block_value1 >>,
                     << "Heap", "Write", si.updated_block_value1 >> >>
                  \o (IF two THEN << << "Heap", "Read", si.pre_block_value2 >>,
                                     << "Heap", "Write", si.updated_block_value2 >> >>
                      ELSE << >>)
           /\ ops[3].addr = w /\ ops[4].addr = w
           /\ two => (ops[5].addr = w + 1 /\ ops[6].addr = w + 1)

C19_Witness ==
    /\ last_op = "memory_event_of_step"
    /\ event.v.step_info.variant = "Store"
    /\ event.v.step_info.effective_address % 8 = 7
    /\ event.v.step_info.store_size = "Byte16"
    /\ Len(ops) = 6
    /\ ops[1].value = event.v.step_info.value

\* The stack-only variants with two operands and with one operand.
BinaryVariants ==
    {"I32BinOp", "I32BinShiftOp", "I32BinBitOp", "I64BinOp", "I64BinShiftOp", "I64BinBitOp",
     "I32Comp", "I64Comp", "F32Comp", "F64Comp", "F32BinOp", "F64BinOp"}

SingleOperandVariants ==
    {"UnaryOp", "CompZ", "I32WrapI64", "I64ExtendI32", "I32SignExtendI8", "I32SignExtendI16",
     "I64SignExtendI8", "I64SignExtendI16", "I64SignExtendI32", "I32TruncF32", "I32TruncF64",
     "I64TruncF32", "I64TruncF64", "F32ConvertI32", "F32ConvertI64", "F64ConvertI32",
     "F64ConvertI64", "I32ReinterpretF32", "I64ReinterpretF64", "F32ReinterpretI32",
     "F64ReinterpretI64", "F32DemoteF64", "F64PromoteF32"}

\* C20: for every stack-only binary, unary, comparison and conversion variant the
\* step yields a read of the right operand (binary only), a read of the left or
\* single operand, then a write of the result to the slot of the left or single
\* operand, in this order.
C20_StackOnlyOrder ==
    (last_op = "memory_event_of_step" /\ ~panicked)
    => LET variant == event.v.step_info.variant
       IN  /\ variant \in BinaryVariants
                => /\ Len(ops) = 3
                   /\ \A k \in 1..3 : ops[k].ltype = "Stack"
                   /\ ops[1].atype = "Read" /\ ops[2].atype = "Read"
                   /\ ops[3].atype = "Write" /\ ops[3].addr = ops[2].addr
           /\ variant \in SingleOperandVariants
                => /\ Len(ops) = 2
                   /\ \A k \in 1..2 : ops[k].ltype = "Stack"
                   /\ ops[1].atype = "Read"
                   /\ ops[2].atype = "Write" /\ ops[2].addr = ops[1].addr

\* C21: a Return step with k kept values yields k Stack reads of the kept values
\* followed by k Stack writes of the same values, the i-th read pairing with the
\* i-th write.
C21_ReturnKeptValues ==
    (last_op = "memory_event_of_step" /\ ~panicked
        /\ event.v.step_info.variant = "Return")
    => LET keep == event.v.step_info.keep_values
           k == Len(keep)
       IN  /\ Len(ops) = 2 * k
           /\ \A i \in 1..k :
                 /\ ops[i].ltype = "Stack" /\ ops[i].atype = "Read"
                 /\ ops[i].value = keep[i]
                 /\ ops[k + i].ltype = "Stack" /\ ops[k + i].atype = "Write"
                 /\ ops[k + i].value = keep[i]

\* C22: a Select step yields exactly four Stack operations in the order read cond,
\* read val2, read val1, write result, whichever operand is selected.
C22_SelectOrder ==
    (last_op = "memory_event_of_step" /\ ~panicked
        /\ event.v.step_info.variant = "Select")
    => LET si == event.v.step_info
       IN  Accesses(ops) = << << "Stack", "Read", si.cond >>,
                              << "Stack", "Read", si.val2 >>,
                              << "Stack", "Read", si.val1 >>,
                              << "Stack", "Write", si.result >> >>

\* The memory-size, memory-grow and constant-push variants.
PushOnlyVariants ==
    {"MemorySize", "MemoryGrow", "I32Const", "Const32", "ConstRef", "I64Const", "F32Const",
     "F64Const"}

\* C23: every memory-size, memory-grow and constant-push step yields no read and
\* exactly one Stack write of the pushed value.
C23_SingleWrite ==
    (last_op = "memory_event_of_step" /\ ~panicked
        /\ event.v.step_info.variant \in PushOnlyVariants)
    => /\ Len(ops) = 1
       /\ ops[1].ltype = "Stack"
       /\ ops[1].atype = "Write"

\* The operations of the memory table that belong to step eid, in table order.
OpsOfEid(eid) == SelectSeq(mtable, LAMBDA m : m.eid = eid)

\* C24: in the memory table produced by get_mtable the emid values of each step's
\* operations rise by exactly one from each operation to the next, for every
\* step kind, straddling and non-straddling Load and Store included.
C24_EmidContiguousPerEid ==
    last_op = "get_mtable"
    => \A eid \in 1..Len(etable) :
          LET run == OpsOfEid(eid)
          IN  \A i \in 1..(Len(run) - 1) : run[i + 1].emid = run[i].emid + 1

\* A table holding a non-straddling Load, a straddling Load, a non-straddling Store
\* and a straddling Store has been translated.
C24_Witness ==
    /\ last_op = "get_mtable"
    /\ mtable = get_mtable(etable)
    /\ \E a, b, c, d \in 1..Len(etable) :
          /\ etable[a].step_info = LoadStep(0, "U8") /\ Len(OpsOfEid(a)) = 3
          /\ etable[b].step_info = LoadStep(6, "U32") /\ Len(OpsOfEid(b)) = 4
          /\ etable[c].step_info = StoreStep(8, "Byte8") /\ Len(OpsOfEid(c)) = 4
          /\ etable[d].step_info = StoreStep(12, "Byte64") /\ Len(OpsOfEid(d)) = 6

\* C25: with one counter threaded through the calls, a call of memory_event_of_step
\* that emits k operations advances the counter by exactly k, so that no emid is
\* issued to two operations.
C25_CounterAdvancesByOps ==
    [][(last_op' = "memory_event_of_step" /\ ~panicked')
          => emid' = emid + Len(ops')]_vars

\* The entry that differs from ev only in sp and allocated_memory_pages.
Reframed(ev, f) == [ev EXCEPT !.sp = f.sp, !.allocated_memory_pages = f.pages]

\* C30: the Stack addresses of a Load or Store step's operations do not depend on
\* the entry's sp: a Load reads its address operand from and writes its result to
\* Stack address 1, a Store reads its value operand from Stack address 1 and its
\* address operand from Stack address 2, and entries that differ only in sp or
\* allocated_memory_pages yield identical operation lists.
C30_StackAddressesIgnoreSp ==
    (last_op = "memory_event_of_step" /\ ~panicked
        /\ event.v.step_info.variant \in {"Load", "Store"})
    => /\ event.v.step_info.variant = "Load"
          => /\ ops[1].ltype = "Stack" /\ ops[1].atype = "Read" /\ ops[1].addr = 1
             /\ ops[Len(ops)].ltype = "Stack" /\ ops[Len(ops)].atype = "Write"
             /\ ops[Len(ops)].addr = 1
       /\ event.v.step_info.variant = "Store"
          => /\ ops[1].ltype = "Stack" /\ ops[1].atype = "Read" /\ ops[1].addr = 1
             /\ ops[2].ltype = "Stack" /\ ops[2].atype = "Read" /\ ops[2].addr = 2
       /\ \A f \in StepFrames, e \in 1..MaxEmid :
             memory_event_of_step(Reframed(event.v, f), e).ops
                = memory_event_of_step(event.v, e).ops

\* A straddling Store step of an entry with sp 5 has been translated after earlier
\* steps advanced the counter.
C30_Witness ==
    /\ last_op = "memory_event_of_step"
    /\ event.v.step_info.variant = "Store"
    /\ event.v.sp = 5
    /\ Len(ops) = 6
    /\ emid > 4

\* C26: push_init_memory appends, after all word entries, exactly one sentinel
\* entry: Heap, mutable, value 0, start_offset = initial_pages * 8192 and
\* end_offset = the last word index of the declared maximum pages, or u32::MAX
\* when no maximum is declared.
C26_Sentinel ==
    [][last_op' = "push_init_memory"
       => LET k == memory.initial_pages
              m == memory.maximum_pages
              n == Len(imtable')
          IN  /\ n = Len(imtable) + k * WordsPerPage + 1
              /\ imtable'[n].ltype = "Heap"
              /\ imtable'[n].is_mutable
              /\ imtable'[n].value = 0
              /\ imtable'[n].start_offset = k * WordsPerPage
              /\ imtable'[n].end_offset
                    = IF m.some THEN m.v * WordsPerPage - 1 ELSE U32Max
              /\ \A i \in (Len(imtable) + 1)..(n - 1) :
                    /\ imtable'[i].start_offset = imtable'[i].end_offset
                    /\ imtable'[i].start_offset < k * WordsPerPage]_vars

\* a <= b for two u32 values, u32::MAX being held as U32Max.
U32Le(a, b) ==
    IF a < 0 THEN b < 0 /\ a <= b ELSE b < 0 \/ a <= b

\* C29: every IMTable entry recorded by push_init_memory and push_global has
\* start_offset <= end_offset, for every memory with k initial pages and no
\* maximum or a maximum m >= k, and the sentinel's end offset is computed without
\* underflowing u32.
C29_OffsetsOrdered ==
    last_op \in {"push_init_memory", "push_global"}
    => /\ ~panicked
       /\ \A i \in 1..Len(imtable) :
             U32Le(imtable[i].start_offset, imtable[i].end_offset)

\* allocated_memory_pages never decreases from one entry of t to the next.
PagesNonDecreasing(t) ==
    \A i \in 1..(Len(t) - 1) :
       t[i].allocated_memory_pages <= t[i + 1].allocated_memory_pages

\* C27: for a table with contiguous eids whose allocated_memory_pages never
\* decreases and a shard count N with 1 <= N <= len, from_shards of
\* into_shards(N) reproduces every entry's eid, sp and allocated_memory_pages.
C27_RoundTripKeepsFrame ==
    (last_op = "from_shards" /\ 1 <= num_shards /\ num_shards <= Len(etable)
        /\ PagesNonDecreasing(etable))
    => /\ ~panicked
       /\ rebuilt.some
       /\ Len(rebuilt.v) = Len(etable)
       /\ \A i \in 1..Len(etable) :
             /\ rebuilt.v[i].eid = etable[i].eid
             /\ rebuilt.v[i].sp = etable[i].sp
             /\ rebuilt.v[i].allocated_memory_pages = etable[i].allocated_memory_pages

\* The number of instruction markers of all shards of ss.
RECURSIVE TotalInstructions(_)
TotalInstructions(ss) ==
    IF ss = << >> THEN 0 ELSE NumInstructions(Head(ss)) + TotalInstructions(Tail(ss))

\* C28: into_shards(N) on a table of length L aborts exactly when N = 0 or N > L;
\* otherwise it returns exactly N shards, each with at least one instruction
\* marker and L instruction markers in total, and it leaves the table unchanged.
C28_IntoShardsAbortsExactly ==
    [][last_op' = "into_shards"
       => /\ etable' = etable
          /\ panicked' <=> (num_shards' = 0 \/ num_shards' > Len(etable))
          /\ ~panicked'
             => /\ Len(shards') = num_shards'
                /\ \A c \in 1..Len(shards') : NumInstructions(shards'[c]) >= 1
                /\ TotalInstructions(shards') = Len(etable)]_vars

\* into_shards(2) has returned the shards of a table of three entries.
C28_Witness ==
    /\ last_op = "into_shards" /\ ~panicked
    /\ num_shards = 2 /\ Len(etable) = 3 /\ Len(shards) = 2

====
